---- MODULE Spec2Model ----
(***************************************************************************)
(* Model of BarcodeParser (src/app.js): normalizeInput, extractISBN and    *)
(* extractCCode.  A text is a sequence of UTF-16 code units (naturals), so *)
(* that the full-width-digit offset, \d, \s and trim() are modelled by     *)
(* what they do to code units.                                             *)
(***************************************************************************)
EXTENDS Integers, Sequences, FiniteSets, TLC

VARIABLES input, cleaned, isbn, ccode, pc

\* The widget: the two input fields, the result and error panels, the
\* pending debounce timer, the processInput calls made so far, and the
\* scenario (how many calls, and what the network may answer).
VARIABLES isbnField, ccodeField, screen, inputTimeout, runs, scenario

parserVars == <<input, cleaned, isbn, ccode, pc>>

widgetVars == <<isbnField, ccodeField, screen, inputTimeout, runs, scenario>>

vars == <<input, cleaned, isbn, ccode, pc,
          isbnField, ccodeField, screen, inputTimeout, runs, scenario>>

(* ------------------------------ characters ----------------------------- *)

\* JavaScript null (no string holds a negative code unit).
NULL == << -1 >>

\* Not yet computed.
UNSET == << -2 >>

Hyphen == 45
Space == 32
Newline == 10
LetterC == 67
IdeographicSpace == 12288
FullWidthZero == 65296
FullWidthOffset == 65248

\* The code unit of the digit n.
D(n) == 48 + n

\* \d of a JavaScript regular expression without the u/v flags: 0-9 only.
IsDigit(c) == c \in D(0)..D(9)

\* The class [０-９] of normalizeInput: U+FF10 .. U+FF19.
IsFullWidthDigit(c) == c \in FullWidthZero..(FullWidthZero + 9)

\* \s of a JavaScript regular expression, also the set String.prototype.trim
\* strips (WhiteSpace and LineTerminator).
WhiteSpace ==
    {9, 10, 11, 12, 13, 32, 160, 5760} \cup (8192..8202)
        \cup {8232, 8233, 8239, 8287, 12288, 65279}

IsSpace(c) == c \in WhiteSpace

\* The class [-\s\d] of the loose ISBN pattern.
IsLooseChar(c) == c = Hyphen \/ IsSpace(c) \/ IsDigit(c)

AllDigits(s) == \A i \in 1..Len(s) : IsDigit(s[i])

(* ---------------------------- normalizeInput --------------------------- *)

\* The replacement subtracting the code unit of the full-width zero, without
\* adding that of the ASCII zero.
toHalfWidthNoBase(s) ==
    [i \in 1..Len(s) |->
        IF IsFullWidthDigit(s[i]) THEN s[i] - FullWidthZero ELSE s[i]]

\* .replace(/[０-９]/g, s => String.fromCharCode(s.charCodeAt(0) - 0xFEE0))
toHalfWidth(s) ==
    [i \in 1..Len(s) |->
        IF IsFullWidthDigit(s[i]) THEN s[i] - FullWidthOffset ELSE s[i]]

\* .trim(): a faulty variant that strips at most one character at each end.
trimOnce(s) ==
    LET a == IF Len(s) > 0 /\ IsSpace(s[1]) THEN 2 ELSE 1
        b == IF Len(s) > 0 /\ IsSpace(s[Len(s)]) THEN Len(s) - 1 ELSE Len(s)
    IN  IF a > b THEN << >> ELSE SubSeq(s, a, b)

\* .trim()
trim(s) ==
    LET keep == {i \in 1..Len(s) : ~IsSpace(s[i])}
    IN  IF keep = {} THEN << >>
        ELSE LET a == CHOOSE i \in keep : \A j \in keep : i <= j
                 b == CHOOSE i \in keep : \A j \in keep : j <= i
             IN  SubSeq(s, a, b)

normalizeInput(s) ==
    IF s = NULL \/ s = << >> THEN << >> ELSE trim(toHalfWidth(s))

(* ----------------------------- extractISBN ----------------------------- *)

LooseMin == 10
LooseMax == 17

\* (978|979) at position i of s.
isbnPrefixAt(s, i) ==
    /\ i + 2 <= Len(s)
    /\ s[i] = D(9) /\ s[i + 1] = D(7) /\ s[i + 2] \in {D(8), D(9)}

\* /^(978|979)\d{10}$/.test(cleaned)
isbnExact(s) ==
    /\ Len(s) = 13
    /\ isbnPrefixAt(s, 1)
    /\ \A i \in 4..13 : IsDigit(s[i])

\* Length of what a greedy [-\s\d]{0,max} takes from position i of s.
looseRun(s, i, max) ==
    LET ks == {k \in 0..max :
                 \A j \in 0..(k - 1) : i + j <= Len(s) /\ IsLooseChar(s[i + j])}
    IN  CHOOSE k \in ks : \A m \in ks : m <= k

\* The {10,13} quantifier in place of {10,17}.
isbnMatchShort(s) ==
    LET at == {i \in 1..Len(s) :
                 isbnPrefixAt(s, i) /\ looseRun(s, i + 3, 13) >= LooseMin}
    IN  IF at = {} THEN NULL
        ELSE LET i == CHOOSE a \in at : \A b \in at : a <= b
             IN  SubSeq(s, i, i + 2 + looseRun(s, i + 3, 13))

\* cleaned.match(/(978|979)[-\s\d]{10,17}/): the leftmost match, greedy;
\* element [0] of the match, or NULL.
isbnMatch(s) ==
    LET at == {i \in 1..Len(s) :
                 isbnPrefixAt(s, i) /\ looseRun(s, i + 3, LooseMax) >= LooseMin}
    IN  IF at = {} THEN NULL
        ELSE LET i == CHOOSE a \in at : \A b \in at : a <= b
             IN  SubSeq(s, i, i + 2 + looseRun(s, i + 3, LooseMax))

\* .replace(/[-\s]/g, '')
stripSeparators(s) == SelectSeq(s, LAMBDA c : ~(c = Hyphen \/ IsSpace(c)))

\* cleaned.match(/(978|979)\d{10}/): the leftmost match, or NULL.
potentialISBN(s) ==
    LET at == {i \in 1..Len(s) :
                 /\ isbnPrefixAt(s, i)
                 /\ i + 12 <= Len(s)
                 /\ \A j \in 3..12 : IsDigit(s[i + j])}
    IN  IF at = {} THEN NULL
        ELSE LET i == CHOOSE a \in at : \A b \in at : a <= b
             IN  SubSeq(s, i, i + 12)

\* extractISBN rejecting a candidate whose check digit is wrong.
checkDigitOk(s) ==
    LET w(i) == IF i % 2 = 1 THEN 1 ELSE 3
        RECURSIVE sum(_)
        sum(i) == IF i = 0 THEN 0 ELSE (s[i] - 48) * w(i) + sum(i - 1)
    IN  Len(s) = 13 /\ AllDigits(s) /\ sum(13) % 10 = 0

extractISBNChecked(text) ==
    LET c == normalizeInput(text)
        r == IF isbnExact(c) THEN c
             ELSE IF isbnMatch(c) # NULL THEN stripSeparators(isbnMatch(c))
             ELSE IF potentialISBN(c) # NULL THEN potentialISBN(c)
             ELSE NULL
    IN  IF r # NULL /\ checkDigitOk(r) THEN r ELSE NULL

\* extractISBN returning the raw argument instead of the normalized text.
extractISBNRaw(text) ==
    LET c == normalizeInput(text)
    IN  IF isbnExact(c) THEN text
        ELSE IF isbnMatch(c) # NULL THEN stripSeparators(isbnMatch(c))
        ELSE IF potentialISBN(c) # NULL THEN potentialISBN(c)
        ELSE NULL

extractISBN(text) ==
    LET c == normalizeInput(text)
    IN  IF isbnExact(c) THEN c
        ELSE IF isbnMatch(c) # NULL THEN stripSeparators(isbnMatch(c))
        ELSE IF potentialISBN(c) # NULL THEN potentialISBN(c)
        ELSE NULL

(* ----------------------------- extractCCode ---------------------------- *)

\* cleaned.match(/^(\d{13})[-\s](\d{4})$/): group 2, or NULL.
hyphenMatch(s) ==
    IF /\ Len(s) = 18
       /\ AllDigits(SubSeq(s, 1, 13))
       /\ (s[14] = Hyphen \/ IsSpace(s[14]))
       /\ AllDigits(SubSeq(s, 15, 18))
    THEN SubSeq(s, 15, 18) ELSE NULL

\* cleaned.match(/^(\d{13})C*(\d{4})$/): group 2, or NULL.
cPrefixMatch(s) ==
    IF /\ Len(s) >= 17
       /\ AllDigits(SubSeq(s, 1, 13))
       /\ \A i \in 14..(Len(s) - 4) : s[i] = LetterC
       /\ AllDigits(SubSeq(s, Len(s) - 3, Len(s)))
    THEN SubSeq(s, Len(s) - 3, Len(s)) ELSE NULL

\* /^\d{4}$/.test(cleaned) ? cleaned : NULL
pureCCode(s) ==
    IF Len(s) = 4 /\ AllDigits(s) THEN s ELSE NULL

\* cleaned.match(/^C*(\d{4})$/): group 1, or NULL.
pureCMatch(s) ==
    IF /\ Len(s) >= 4
       /\ \A i \in 1..(Len(s) - 4) : s[i] = LetterC
       /\ AllDigits(SubSeq(s, Len(s) - 3, Len(s)))
    THEN SubSeq(s, Len(s) - 3, Len(s)) ELSE NULL

\* The 5-digit rule keeping the last four digits instead of the first four.
checkDigitCodeLast(s) ==
    IF Len(s) = 5 /\ AllDigits(s) THEN SubSeq(s, 2, 5) ELSE NULL

\* The 5-digit rule without substring(0, 4).
checkDigitCodeWhole(s) ==
    IF Len(s) = 5 /\ AllDigits(s) THEN s ELSE NULL

\* The 5-digit rule without the $ anchor: /^\d{5}/.
checkDigitCodeOpen(s) ==
    IF Len(s) >= 5 /\ AllDigits(SubSeq(s, 1, 5)) THEN SubSeq(s, 1, 4) ELSE NULL

\* /^\d{5}$/.test(cleaned) ? cleaned.substring(0, 4) : NULL
checkDigitCode(s) ==
    IF Len(s) = 5 /\ AllDigits(s) THEN SubSeq(s, 1, 4) ELSE NULL

\* The 192 rule with a $ anchor: /^192(\d{4})$/.
secondJanMatchAnchored(s) ==
    IF /\ Len(s) = 7
       /\ s[1] = D(1) /\ s[2] = D(9) /\ s[3] = D(2)
       /\ AllDigits(SubSeq(s, 4, 7))
    THEN SubSeq(s, 4, 7) ELSE NULL

\* cleaned.match(/^192(\d{4})/): group 1, or NULL.
secondJanMatch(s) ==
    IF /\ Len(s) >= 7
       /\ s[1] = D(1) /\ s[2] = D(9) /\ s[3] = D(2)
       /\ AllDigits(SubSeq(s, 4, 7))
    THEN SubSeq(s, 4, 7) ELSE NULL

extractCCode(text) ==
    LET c == normalizeInput(text)
    IN  IF hyphenMatch(c) # NULL THEN hyphenMatch(c)
        ELSE IF cPrefixMatch(c) # NULL THEN cPrefixMatch(c)
        ELSE IF pureCCode(c) # NULL THEN pureCCode(c)
        ELSE IF pureCMatch(c) # NULL THEN pureCMatch(c)
        ELSE IF checkDigitCode(c) # NULL THEN checkDigitCode(c)
        ELSE IF secondJanMatch(c) # NULL THEN secondJanMatch(c)
        ELSE NULL

(* -------------------------------- inputs ------------------------------- *)

MaxSegs == 4

Jan13 == <<D(9), D(7), D(8), D(4), D(1), D(0), D(1), D(0), D(0), D(1), D(0), D(1), D(2)>>
SecondJan13 == <<D(1), D(9), D(2), D(0), D(0), D(9), D(3), D(0), D(0), D(5), D(8), D(0), D(4)>>

Chunks ==
    { Jan13, SecondJan13,
      <<D(9), D(7), D(8)>>, <<D(1), D(9), D(2)>>,
      <<D(0), D(0), D(9), D(1)>>,
      <<Hyphen>>, <<Space>>, <<LetterC>>, <<FullWidthZero>> }

RECURSIVE Flatten(_)
Flatten(cs) == IF cs = << >> THEN << >> ELSE Head(cs) \o Flatten(Tail(cs))

ChunkInputs ==
    { Flatten(cs) : cs \in UNION { [1..k -> Chunks] : k \in 0..MaxSegs } }

\* 13-digit strings with an ISBN prefix; the pairs make "978"/"979" occur
\* again inside the ten digits that follow the prefix.
Pairs == { <<D(9), D(7)>>, <<D(8), D(9)>>, <<D(7), D(8)>>, <<D(0), D(1)>> }

IsbnInputs ==
    { <<D(9), D(7), p>> \o Flatten(ps) : p \in {D(8), D(9)}, ps \in [1..5 -> Pairs] }

\* A 13-digit ISBN with runs of hyphens and/or spaces inserted at the gaps
\* SepGaps (gap g lies after the g-th digit), at most MaxRun in one gap.
MaxRun == 2

Isbn979 == <<D(9), D(7), D(9), D(1), D(0), D(9), D(7), D(8), D(0), D(0), D(0), D(0), D(3)>>

SepGaps == {0, 2, 3, 7, 13}

SepStyles == {"hyphen", "space", "mixed"}

sepChar(style, g) ==
    IF style = "hyphen" THEN Hyphen
    ELSE IF style = "space" THEN Space
    ELSE IF g % 2 = 0 THEN Space ELSE Hyphen

RECURSIVE withSeparators(_, _, _, _)
withSeparators(base, cnt, style, g) ==
    LET run == IF g \in SepGaps THEN [i \in 1..cnt[g] |-> sepChar(style, g)] ELSE << >>
    IN  IF g = Len(base) THEN run
        ELSE run \o <<base[g + 1]>> \o withSeparators(base, cnt, style, g + 1)

SeparatedInputs ==
    { withSeparators(base, cnt, style, 0) :
        base \in {Jan13, Isbn979}, cnt \in [SepGaps -> 0..MaxRun], style \in SepStyles }

\* Short texts of whitespace, full-width digits, a digit and a hyphen.
MaxNormLen == 4

NormChars ==
    {Space, Newline, IdeographicSpace, FullWidthZero, FullWidthZero + 9, D(0), Hyphen}

NormInputs == UNION { [1..k -> NormChars] : k \in 0..MaxNormLen }

\* The absent (null/undefined) argument of normalizeInput's !input test.
AbsentInputs == {NULL}

Inputs ==
    ChunkInputs \cup IsbnInputs \cup SeparatedInputs \cup NormInputs \cup AbsentInputs

(* -------------------------------- widget ------------------------------- *)

Providers == {"google", "openbd", "ndl"}

\* What the network does to one request: fetch() rejects; the response is
\* not OK; the body cannot be read or parsed; the body holds no record; the
\* body holds a record.
NetOutcomes == {"networkError", "httpError", "badBody", "noRecord", "ok"}

NetFailures == {"networkError", "httpError", "badBody"}

\* fetchByISBN with a catch block that rethrows.
fetchByISBNRethrow(out) ==
    IF out = "networkError" THEN "rejected"
    ELSE IF out = "httpError" THEN "rejected"
    ELSE IF out = "badBody" THEN "rejected"
    ELSE IF out = "noRecord" THEN "null"
    ELSE "record"

\* GoogleBooksService.fetchByISBN: how the returned promise settles.  Every
\* await and the throw on !response.ok sit inside try; catch returns null.
GoogleBooksService_fetchByISBN(out) ==
    IF out = "networkError" THEN "null"
    ELSE IF out = "httpError" THEN "null"
    ELSE IF out = "badBody" THEN "null"
    ELSE IF out = "noRecord" THEN "null"
    ELSE "record"

\* BookService.fetchByISBN (openBD).
BookService_fetchByISBN(out) ==
    IF out = "networkError" THEN "null"
    ELSE IF out = "httpError" THEN "null"
    ELSE IF out = "badBody" THEN "null"
    ELSE IF out = "noRecord" THEN "null"
    ELSE "record"

\* NdlSearchService.fetchByISBN: response.text() may reject; a document
\* without title, alternative, volume, creator and NDC gives null.
NdlSearchService_fetchByISBN(out) ==
    IF out = "networkError" THEN "null"
    ELSE IF out = "httpError" THEN "null"
    ELSE IF out = "badBody" THEN "null"
    ELSE IF out = "noRecord" THEN "null"
    ELSE "record"

fetchByISBN(p, out) ==
    IF p = "google" THEN GoogleBooksService_fetchByISBN(out)
    ELSE IF p = "openbd" THEN BookService_fetchByISBN(out)
    ELSE NdlSearchService_fetchByISBN(out)

\* parseCCode of ccode-data.js: absent unless the code is four digits.
\* assigned tells whether the tables hold the code's entries.  The result
\* is the three table keys: target digit, format digit, content number.
parseCCode(code, assigned) ==
    IF Len(code) = 4 /\ AllDigits(code) /\ assigned
    THEN <<code[1] - D(0), code[2] - D(0), 10 * (code[3] - D(0)) + (code[4] - D(0))>>
    ELSE NULL

NoFetch == [p \in Providers |-> "idle"]
NoAnswer == [p \in Providers |-> "none"]

\* if (!isbn) isbn = ...; if (!ccode) ccode = ...: the second field is
\* searched only when the first gave nothing.
orElse(first, second) == IF first # NULL THEN first ELSE second

\* let parsedCCode = null; if (ccode) parsedCCode = parseCCode(ccode).
decodeIfPresent(c, assigned) == IF c # NULL THEN parseCCode(c, assigned) ELSE NULL

\* As processInputTail, but going on to the fetches after a decode failure.
processInputTailEager(i, c, parsed) ==
    IF i # NULL
    THEN [pc |-> "await", isbn |-> i, ccode |-> c,
          parsedCCode |-> parsed, query |-> i]
    ELSE [pc |-> "shown", isbn |-> i, ccode |-> c,
          parsedCCode |-> parsed, query |-> UNSET]

\* processInput from the decode check on: the throw, the fetches behind
\* if (isbn), or showResult at once.
processInputTail(i, c, parsed) ==
    IF c # NULL /\ parsed = NULL
    THEN [pc |-> "failed", isbn |-> i, ccode |-> c,
          parsedCCode |-> parsed, query |-> UNSET]
    ELSE IF i # NULL
    THEN [pc |-> "await", isbn |-> i, ccode |-> c,
          parsedCCode |-> parsed, query |-> i]
    ELSE [pc |-> "shown", isbn |-> i, ccode |-> c,
          parsedCCode |-> parsed, query |-> UNSET]

processInputDecode(i, c, assigned) ==
    processInputTail(i, c, decodeIfPresent(c, assigned))

\* processInput after the two normalizeInput calls.
processInputTry(normalizedIsbn, normalizedCcode, assigned) ==
    IF normalizedIsbn = << >> /\ normalizedCcode = << >>
    THEN [pc |-> "returned", isbn |-> UNSET, ccode |-> UNSET,
          parsedCCode |-> UNSET, query |-> UNSET]
    ELSE processInputDecode(
            orElse(extractISBN(normalizedIsbn), extractISBN(normalizedCcode)),
            orElse(extractCCode(normalizedCcode), extractCCode(normalizedIsbn)),
            assigned)

\* The synchronous part of processInput: where the call stands at its first
\* suspension or at its end (pc), its locals, and the ISBN it fetches.
processInputSync(isbnValue, ccodeValue, assigned) ==
    processInputTry(normalizeInput(isbnValue), normalizeInput(ccodeValue), assigned)

BlankDisplay == [isbn |-> UNSET, ccode |-> UNSET, info |-> NoAnswer]

\* showResult: the texts written, the result panel shown, the error panel
\* hidden.  info[p] is "record" when provider p's fields are displayed.
showResult(scr, data) ==
    [resultHidden |-> FALSE, errorHidden |-> TRUE,
     display |-> [isbn |-> data.isbn, ccode |-> data.ccode, info |-> data.info]]

\* showError leaving the result panel as it is.
showErrorOnly(scr) ==
    [scr EXCEPT !.errorHidden = FALSE]

\* showError: the error panel shown, the result panel hidden.
showError(scr) ==
    [scr EXCEPT !.errorHidden = FALSE, !.resultHidden = TRUE]

\* The result and error panels after clear().
clearPanels(scr) ==
    [scr EXCEPT !.resultHidden = TRUE, !.errorHidden = TRUE]

NoScenario ==
    [runLimit |-> 0, outcomes |-> {}, ordered |-> FALSE,
     isbnTexts |-> {}, ccodeTexts |-> {}]

\* The widget before any event: empty fields, both panels hidden.
WidgetIdle ==
    /\ isbnField = << >>
    /\ ccodeField = << >>
    /\ screen = [resultHidden |-> TRUE, errorHidden |-> TRUE, display |-> BlankDisplay]
    /\ inputTimeout = FALSE
    /\ runs = << >>

(* ------------------------------- actions ------------------------------- *)

Init ==
    /\ input \in Inputs
    /\ cleaned = UNSET
    /\ isbn = UNSET
    /\ ccode = UNSET
    /\ pc = "read"
    /\ WidgetIdle
    /\ scenario = NoScenario

Normalize ==
    /\ pc = "read"
    /\ cleaned' = normalizeInput(input)
    /\ pc' = "normalized"
    /\ UNCHANGED <<input, isbn, ccode>>
    /\ UNCHANGED widgetVars

ExtractISBN ==
    /\ pc = "normalized"
    /\ isbn' = extractISBN(input)
    /\ pc' = "isbn"
    /\ UNCHANGED <<input, cleaned, ccode>>
    /\ UNCHANGED widgetVars

ExtractCCode ==
    /\ pc = "isbn"
    /\ ccode' = extractCCode(input)
    /\ pc' = "done"
    /\ UNCHANGED <<input, cleaned, isbn>>
    /\ UNCHANGED widgetVars

Next == Normalize \/ ExtractISBN \/ ExtractCCode

Spec == Init /\ [][Next]_vars

(* ---------------------------- widget actions --------------------------- *)

MaxRuns == 2

\* The order in which processInput calls the three providers.
ProviderOrder == [google |-> 1, openbd |-> 2, ndl |-> 3]

\* The call after showResult: it has returned and its locals are gone.
Returned(run) ==
    [run EXCEPT !.pc = "shown", !.isbn = UNSET, !.ccode = UNSET,
                !.parsedCCode = UNSET, !.query = UNSET, !.cleared = FALSE]

Code0091 == <<D(0), D(0), D(9), D(1)>>

\* Overlapping processInput calls: up to MaxRuns calls, two ISBNs and one
\* classification code to type, every request answered with a record, and
\* the three requests of a call answered in the order of ProviderOrder
\* (the answers of one call commute and nothing reads them before
\* Promise.all settles).
InitUI ==
    /\ input = << >> /\ cleaned = UNSET /\ isbn = UNSET /\ ccode = UNSET
    /\ pc = "widget"
    /\ WidgetIdle
    /\ scenario = [runLimit |-> MaxRuns, outcomes |-> {"ok"}, ordered |-> TRUE,
                   isbnTexts |-> {Jan13, Isbn979}, ccodeTexts |-> {Code0091}]

\* One processInput call: every network outcome, the requests answered in
\* any order, and also a blank ISBN field and an unusable code text.
InitFetch ==
    /\ input = << >> /\ cleaned = UNSET /\ isbn = UNSET /\ ccode = UNSET
    /\ pc = "widget"
    /\ WidgetIdle
    /\ scenario = [runLimit |-> 1, outcomes |-> NetOutcomes, ordered |-> FALSE,
                   isbnTexts |-> {Jan13, Isbn979, <<Space>>},
                   ccodeTexts |-> {Code0091, <<LetterC>>}]

\* The effect of a call's synchronous part f: the call is recorded with its
\* fetches started if it awaits, and the panel it showed is on the screen.
Started(f) ==
    /\ runs' = Append(runs,
          [pc |-> f.pc, isbn |-> f.isbn, ccode |-> f.ccode,
           parsedCCode |-> f.parsedCCode, query |-> f.query,
           fetch |-> IF f.query # UNSET
                     THEN [p \in Providers |-> "pending"] ELSE NoFetch,
           net |-> NoAnswer,
           cleared |-> FALSE])
    /\ screen' =
          IF f.pc = "failed" THEN showError(screen)
          ELSE IF f.pc = "shown"
          THEN showResult(screen,
                  [isbn |-> f.isbn, ccode |-> f.ccode, info |-> NoAnswer])
          ELSE screen

\* A call of processInput, up to its first suspension or its end.
ProcessInput(assigned) ==
    /\ Len(runs) < scenario.runLimit
    /\ Started(processInputSync(isbnField, ccodeField, assigned))

\* readBtn click.
ClickRead ==
    /\ \E assigned \in BOOLEAN : ProcessInput(assigned)
    /\ UNCHANGED <<isbnField, ccodeField, inputTimeout, scenario>>
    /\ UNCHANGED parserVars

\* Enter in the classification-code field.
EnterInCcode ==
    /\ \E assigned \in BOOLEAN : ProcessInput(assigned)
    /\ UNCHANGED <<isbnField, ccodeField, inputTimeout, scenario>>
    /\ UNCHANGED parserVars

\* Text arrives in the ISBN field.
TypeIsbn ==
    /\ \E t \in scenario.isbnTexts : isbnField' = t
    /\ UNCHANGED <<ccodeField, screen, inputTimeout, runs, scenario>>
    /\ UNCHANGED parserVars

\* Text arrives in the classification-code field: the input handler clears
\* the pending timer and sets a new one.
TypeCcode ==
    /\ \E t \in scenario.ccodeTexts : ccodeField' = t
    /\ inputTimeout' = TRUE
    /\ UNCHANGED <<isbnField, screen, runs, scenario>>
    /\ UNCHANGED parserVars

\* The 300 ms timer fires.
TimerFire ==
    /\ inputTimeout
    /\ inputTimeout' = FALSE
    /\ IF \/ \E i \in 1..Len(ccodeField) : ccodeField[i] \in {Newline, 13}
          \/ Len(ccodeField) >= 4
       THEN \E assigned \in BOOLEAN : ProcessInput(assigned)
       ELSE UNCHANGED <<runs, screen>>
    /\ UNCHANGED <<isbnField, ccodeField, scenario>>
    /\ UNCHANGED parserVars

\* The network answers provider p's request of call r.
Settle(r, p) ==
    /\ runs[r].pc = "await"
    /\ runs[r].fetch[p] = "pending"
    /\ scenario.ordered =>
          \A q \in Providers :
              ProviderOrder[q] < ProviderOrder[p] => runs[r].fetch[q] # "pending"
    /\ \E out \in scenario.outcomes :
          runs' = [runs EXCEPT ![r].fetch[p] = fetchByISBN(p, out),
                               ![r].net[p] = out]
    /\ UNCHANGED <<isbnField, ccodeField, screen, inputTimeout, scenario>>
    /\ UNCHANGED parserVars

\* Promise.all settles and call r goes on: showResult when all three
\* promises resolved, the catch block when one rejected.
Resume(r) ==
    /\ runs[r].pc = "await"
    /\ IF \E p \in Providers : runs[r].fetch[p] = "rejected"
       THEN /\ runs' = [runs EXCEPT ![r].pc = "failed"]
            /\ screen' = showError(screen)
       ELSE /\ \A p \in Providers : runs[r].fetch[p] \in {"record", "null"}
            /\ runs' = [runs EXCEPT ![r] = Returned(runs[r])]
            /\ screen' = showResult(screen,
                  [isbn |-> runs[r].isbn, ccode |-> runs[r].ccode,
                   info |-> [p \in Providers |->
                               IF runs[r].fetch[p] = "record"
                               THEN "record" ELSE "none"]])
    /\ UNCHANGED <<isbnField, ccodeField, inputTimeout, scenario>>
    /\ UNCHANGED parserVars

\* clearBtn click.
Clear ==
    /\ isbnField' = << >>
    /\ ccodeField' = << >>
    /\ screen' = clearPanels(screen)
    /\ runs' = [r \in 1..Len(runs) |->
                  IF runs[r].pc = "await"
                  THEN [runs[r] EXCEPT !.cleared = TRUE] ELSE runs[r]]
    /\ UNCHANGED <<inputTimeout, scenario>>
    /\ UNCHANGED parserVars

NextUI ==
    \/ ClickRead
    \/ EnterInCcode
    \/ TypeIsbn
    \/ TypeCcode
    \/ TimerFire
    \/ \E r \in 1..Len(runs), p \in Providers : Settle(r, p)
    \/ \E r \in 1..Len(runs) : Resume(r)
    \/ Clear

SpecUI == InitUI /\ [][NextUI]_vars

SpecFetch == InitFetch /\ [][NextUI]_vars

(* -------------------------------- claims ------------------------------- *)

\* A 13-digit string beginning with 978 or 979.
IsIsbn13(s) ==
    /\ Len(s) = 13
    /\ AllDigits(s)
    /\ s[1] = D(9) /\ s[2] = D(7) /\ s[3] \in {D(8), D(9)}

Present(r) == r # UNSET /\ r # NULL

digitsOf(s) == SelectSeq(s, IsDigit)

RECURSIVE IsSubsequence(_, _)
IsSubsequence(a, b) ==
    IF a = << >> THEN TRUE
    ELSE IF b = << >> THEN FALSE
    ELSE IF Head(a) = Head(b) THEN IsSubsequence(Tail(a), Tail(b))
    ELSE IsSubsequence(a, Tail(b))

\* C1: every non-absent result of extractISBN is 13 characters long, all
\* digits, and begins with 978 or 979.
C1_IsbnIsThirteenDigits == Present(isbn) => IsIsbn13(isbn)

\* C2: extractISBN returns a 13-digit string beginning with 978 or 979
\* unchanged.
C2_RoundTrip == (isbn # UNSET /\ IsIsbn13(input)) => isbn = input

\* A clean ISBN whose later digits contain another ISBN prefix is returned whole.
C2_Witness ==
    /\ isbn # UNSET /\ IsIsbn13(input) /\ isbn = input
    /\ \E i \in 4..11 : input[i] = D(9) /\ input[i + 1] = D(7) /\ input[i + 2] = D(8)

\* The documented scan-line shapes of a normalized text.
ShapeJanSepCode(s) ==
    /\ Len(s) = 18
    /\ AllDigits(SubSeq(s, 1, 13))
    /\ s[14] \in {Hyphen, Space}
    /\ AllDigits(SubSeq(s, 15, 18))

ShapeJanCCode(s) ==
    /\ Len(s) >= 17
    /\ AllDigits(SubSeq(s, 1, 13))
    /\ AllDigits(SubSeq(s, Len(s) - 3, Len(s)))
    /\ \A i \in 14..(Len(s) - 4) : s[i] = LetterC

ShapeFourDigits(s) == Len(s) = 4 /\ AllDigits(s)

ShapeCCode(s) ==
    /\ Len(s) >= 5
    /\ AllDigits(SubSeq(s, Len(s) - 3, Len(s)))
    /\ \A i \in 1..(Len(s) - 4) : s[i] = LetterC

ShapeFiveDigits(s) == Len(s) = 5 /\ AllDigits(s)

LastFour(s) == SubSeq(s, Len(s) - 3, Len(s))

\* C3: for each documented scan-line shape of the normalized text,
\* extractCCode returns the four code digits of that shape.
C3_ScanLineShapes ==
    ccode # UNSET =>
        /\ ShapeJanSepCode(cleaned) => ccode = LastFour(cleaned)
        /\ ShapeJanCCode(cleaned) => ccode = LastFour(cleaned)
        /\ ShapeFourDigits(cleaned) => ccode = cleaned
        /\ ShapeCCode(cleaned) => ccode = LastFour(cleaned)
        /\ ShapeFiveDigits(cleaned) => ccode = SubSeq(cleaned, 1, 4)

\* A five-digit text whose first four and last four digits differ gave its
\* first four.
C3_Witness ==
    /\ ccode # UNSET
    /\ ShapeFiveDigits(cleaned)
    /\ SubSeq(cleaned, 1, 4) # SubSeq(cleaned, 2, 5)
    /\ ccode = SubSeq(cleaned, 1, 4)

\* Normalized text beginning with "192" followed by at least four digits.
Shape192(s) ==
    /\ Len(s) >= 7
    /\ s[1] = D(1) /\ s[2] = D(9) /\ s[3] = D(2)
    /\ AllDigits(SubSeq(s, 4, 7))

\* Rule 1 takes a hyphen or any \s character as the separator.
ShapeRule1(s) ==
    /\ Len(s) = 18
    /\ AllDigits(SubSeq(s, 1, 13))
    /\ (s[14] = Hyphen \/ IsSpace(s[14]))
    /\ AllDigits(SubSeq(s, 15, 18))

MatchesRules1To5(s) ==
    \/ ShapeRule1(s)
    \/ ShapeJanCCode(s)
    \/ ShapeFourDigits(s)
    \/ ShapeCCode(s)
    \/ ShapeFiveDigits(s)

\* C4: a 13-digit text beginning with 192, and any text beginning with 192
\* and four more digits that matches none of rules 1-5, yields the four
\* digits that follow "192".
C4_SecondJan ==
    ccode # UNSET =>
        /\ (Len(cleaned) = 13 /\ AllDigits(cleaned) /\ Shape192(cleaned))
              => ccode = SubSeq(cleaned, 4, 7)
        /\ (Shape192(cleaned) /\ ~MatchesRules1To5(cleaned))
              => ccode = SubSeq(cleaned, 4, 7)

\* A 13-digit second-row JAN gave the digits after "192".
C4_Witness ==
    /\ ccode # UNSET
    /\ Len(cleaned) = 13 /\ AllDigits(cleaned) /\ Shape192(cleaned)
    /\ ccode = SubSeq(cleaned, 4, 7)

\* The text is a 13-digit ISBN with hyphens and spaces inserted, none
\* inside the 3-digit prefix.
IsSeparatedIsbn(t) ==
    /\ \A i \in 1..Len(t) : IsDigit(t[i]) \/ t[i] \in {Hyphen, Space}
    /\ IsIsbn13(digitsOf(t))
    /\ \E i \in 1..Len(t) :
          /\ \A j \in 1..(i - 1) : ~IsDigit(t[j])
          /\ i + 2 <= Len(t)
          /\ IsDigit(t[i]) /\ IsDigit(t[i + 1]) /\ IsDigit(t[i + 2])

SeparatorCount(t) == Len(t) - Len(digitsOf(t))

\* C5: a 13-digit ISBN with at most 7 hyphens and spaces inserted, none in
\* the prefix, is returned by extractISBN with the separators removed.
C5_SeparatedIsbn ==
    (isbn # UNSET /\ IsSeparatedIsbn(input)
        /\ SeparatorCount(input) <= LooseMax - LooseMin)
      => isbn = digitsOf(input)

\* Seven separators, some of them after the last digit.
C5_Witness ==
    /\ isbn # UNSET
    /\ IsSeparatedIsbn(input)
    /\ SeparatorCount(input) = LooseMax - LooseMin
    /\ input[Len(input)] = Hyphen
    /\ isbn = digitsOf(input)

\* Positions of "978"/"979" followed by ten digits and then no further digit.
embeddedRuns(s) ==
    {i \in 1..Len(s) :
        /\ i + 12 <= Len(s)
        /\ IsIsbn13(SubSeq(s, i, i + 12))
        /\ (i + 13 <= Len(s) => ~IsDigit(s[i + 13]))}

\* C6: a text that is not an exact 13-digit ISBN but contains 978/979
\* followed by exactly ten digits yields the first such 13-digit run.
C6_EmbeddedRun ==
    (isbn # UNSET /\ ~IsIsbn13(cleaned) /\ embeddedRuns(cleaned) # {})
      => LET i == CHOOSE a \in embeddedRuns(cleaned) :
                     \A b \in embeddedRuns(cleaned) : a <= b
         IN  isbn = SubSeq(cleaned, i, i + 12)

\* C7: every non-absent result of extractCCode is four digits.
C7_CCodeIsFourDigits == Present(ccode) => (Len(ccode) = 4 /\ AllDigits(ccode))

\* The five-digit rule produced a code.
C7_Witness ==
    /\ Present(ccode)
    /\ ShapeFiveDigits(cleaned)
    /\ Len(ccode) = 4 /\ AllDigits(ccode)

\* C8: every non-absent result of extractISBN or extractCCode is an
\* in-order subsequence of the normalized text.
C8_NoFabricatedDigits ==
    /\ Present(isbn) => IsSubsequence(isbn, cleaned)
    /\ Present(ccode) => IsSubsequence(ccode, cleaned)

\* Both extractors produced a value from a text that normalization changed
\* and that holds separators the ISBN result dropped.
C8_Witness ==
    /\ Present(isbn) /\ Present(ccode)
    /\ cleaned # input
    /\ Len(isbn) < Len(cleaned)
    /\ IsSubsequence(isbn, cleaned) /\ IsSubsequence(ccode, cleaned)

\* extractCCode with rule 6 evaluated before rules 3-5.
extractCCodeRule6First(text) ==
    LET c == normalizeInput(text)
    IN  IF hyphenMatch(c) # NULL THEN hyphenMatch(c)
        ELSE IF cPrefixMatch(c) # NULL THEN cPrefixMatch(c)
        ELSE IF secondJanMatch(c) # NULL THEN secondJanMatch(c)
        ELSE IF pureCCode(c) # NULL THEN pureCCode(c)
        ELSE IF pureCMatch(c) # NULL THEN pureCMatch(c)
        ELSE IF checkDigitCode(c) # NULL THEN checkDigitCode(c)
        ELSE NULL

\* C9: no normalized text matches rule 6 and one of rules 3-5, and
\* evaluating rule 6 before rules 3-5 gives the deployed result.
C9_Rule6Disjoint ==
    ccode # UNSET =>
        /\ ~ /\ secondJanMatch(cleaned) # NULL
             /\ \/ pureCCode(cleaned) # NULL
                \/ pureCMatch(cleaned) # NULL
                \/ checkDigitCode(cleaned) # NULL
        /\ extractCCodeRule6First(input) = ccode

\* Rule 6 produced the code, on a text where rules 1 and 2 do not apply.
C9_Witness ==
    /\ Present(ccode)
    /\ hyphenMatch(cleaned) = NULL /\ cPrefixMatch(cleaned) = NULL
    /\ secondJanMatch(cleaned) = ccode
    /\ extractCCodeRule6First(input) = ccode

\* C10: normalizing a normalized text changes nothing.
C10_NormalizeIdempotent == cleaned # UNSET => normalizeInput(cleaned) = cleaned

\* A text with two leading whitespace characters and a full-width digit.
C10_Witness ==
    /\ cleaned # UNSET
    /\ Len(input) >= 3 /\ IsSpace(input[1]) /\ IsSpace(input[2])
    /\ \E i \in 1..Len(input) : IsFullWidthDigit(input[i])
    /\ cleaned # << >>
    /\ normalizeInput(cleaned) = cleaned

\* The text without its leading, then without its trailing, whitespace.
RECURSIVE dropLeadingSpace(_)
dropLeadingSpace(s) ==
    IF s # << >> /\ IsSpace(Head(s)) THEN dropLeadingSpace(Tail(s)) ELSE s

RECURSIVE dropTrailingSpace(_)
dropTrailingSpace(s) ==
    IF s # << >> /\ IsSpace(s[Len(s)])
    THEN dropTrailingSpace(SubSeq(s, 1, Len(s) - 1)) ELSE s

\* The ASCII digit of a full-width digit; any other character unchanged.
asciiOf(c) ==
    IF c \in FullWidthZero..(FullWidthZero + 9) THEN D(c - FullWidthZero) ELSE c

expectedNormalized(s) ==
    IF s = NULL THEN << >>
    ELSE LET t == dropTrailingSpace(dropLeadingSpace(s))
         IN  [i \in 1..Len(t) |-> asciiOf(t[i])]

\* C11: normalizeInput(S) is S without its outer whitespace and with each
\* full-width digit replaced by its ASCII digit, every other character in
\* place; an empty or absent S gives the empty string.
C11_NormalizeResult == cleaned # UNSET => cleaned = expectedNormalized(input)

\* Outer whitespace was stripped, a full-width digit converted and an inner
\* whitespace character kept.
C11_Witness ==
    /\ cleaned # UNSET /\ input # NULL
    /\ Len(input) >= 4 /\ IsSpace(input[1])
    /\ \E i \in 1..Len(input) : IsFullWidthDigit(input[i])
    /\ Len(cleaned) = 3 /\ IsSpace(cleaned[2])
    /\ cleaned = expectedNormalized(input)

FetchStarted(run) == \E p \in Providers : run.fetch[p] # "idle"

\* C12: no provider's promise rejects: every network failure, and a body
\* without a record, resolves to null; so a call that awaited its fetches
\* always goes on to showResult, which displays each provider's own answer.
C12_ProvidersNeverReject ==
    [][ /\ \A r \in 1..Len(runs'), p \in Providers :
              /\ runs'[r].fetch[p] # "rejected"
              /\ runs'[r].net[p] # "none" =>
                    runs'[r].fetch[p] =
                        IF runs'[r].net[p] = "ok" THEN "record" ELSE "null"
        /\ \A r \in 1..Len(runs) :
              (runs[r].pc = "await" /\ runs'[r].pc # "await") =>
                  /\ runs'[r].pc = "shown"
                  /\ ~screen'.resultHidden
                  /\ \A p \in Providers :
                        screen'.display.info[p] =
                            IF runs[r].net[p] = "ok" THEN "record" ELSE "none"
      ]_vars

\* Two providers failed in different ways and the third one's record is
\* displayed.
C12_Witness ==
    \E r \in 1..Len(runs) :
        /\ runs[r].pc = "shown"
        /\ runs[r].net["google"] = "networkError"
        /\ runs[r].net["ndl"] = "badBody"
        /\ runs[r].net["openbd"] = "ok"
        /\ ~screen.resultHidden
        /\ screen.display.info["openbd"] = "record"
        /\ screen.display.info["google"] = "none"

BothFieldsBlank ==
    normalizeInput(isbnField) = << >> /\ normalizeInput(ccodeField) = << >>

\* C13: a call starts its fetches only at the end of its synchronous part,
\* with the non-absent ISBN that extractISBN returned and after the code
\* was extracted and decoded; a code the decoder rejects starts no fetch
\* and shows the error panel without displaying a result; two blank fields
\* start no fetch and leave the screen as it is.
C13_FetchAfterExtraction ==
    [][ /\ \A r \in 1..Len(runs), p \in Providers :
              runs[r].fetch[p] = "idle" => runs'[r].fetch[p] = "idle"
        /\ Len(runs') = Len(runs) + 1 =>
              LET f == runs'[Len(runs')]
              IN  /\ FetchStarted(f) =>
                        /\ Present(f.query)
                        /\ f.query = f.isbn
                        /\ f.isbn \in {extractISBN(isbnField), extractISBN(ccodeField)}
                        /\ f.ccode # UNSET /\ f.parsedCCode # UNSET
                        /\ ~(f.ccode # NULL /\ f.parsedCCode = NULL)
                  /\ (Present(f.ccode) /\ f.parsedCCode = NULL) =>
                        /\ ~FetchStarted(f)
                        /\ f.pc = "failed"
                        /\ ~screen'.errorHidden
                        /\ screen'.resultHidden
                        /\ screen'.display = screen.display
                  /\ BothFieldsBlank =>
                        /\ ~FetchStarted(f)
                        /\ f.pc = "returned"
                        /\ screen' = screen
      ]_vars

\* A call waits for its fetches, started with the ISBN of the ISBN field
\* after its code was decoded.
C13_Witness ==
    \E r \in 1..Len(runs) :
        /\ runs[r].pc = "await"
        /\ FetchStarted(runs[r])
        /\ runs[r].query = isbnField /\ IsIsbn13(runs[r].query)
        /\ Present(runs[r].ccode) /\ Present(runs[r].parsedCCode)

\* C14: the result panel and the error panel are never both visible.
C14_PanelsExclusive == screen.resultHidden \/ screen.errorHidden

\* showError replaced the displayed result of an earlier call.
C14_Witness ==
    /\ ~screen.errorHidden /\ screen.resultHidden
    /\ Present(screen.display.isbn)
    /\ \E r, q \in 1..Len(runs) :
          r < q /\ runs[r].pc = "shown" /\ runs[q].pc = "failed"

\* C15: a call that displays its result after its fetches is the most
\* recently started call to display, and clear() was not pressed while it
\* waited.
C15_LatestRunWins ==
    [][ \A r \in 1..Len(runs) :
            (runs[r].pc = "await" /\ runs'[r].pc = "shown") =>
                /\ ~runs[r].cleared
                /\ \A q \in (r + 1)..Len(runs) : runs[q].pc # "shown"
      ]_vars

====
